---- MODULE Spec2Model ----
(***************************************************************************)
(* Release-notes decision pipeline (main.py, rn/filtering.py,              *)
(* rn/filtering_llm.py, rn/schema.py, rn/review.py, rn/render.py).         *)
(*                                                                         *)
(* Encoding of Python values.  A free-form Python str (subject, body, file *)
(* path, type, title, description, reason, question, url) is a "text": a   *)
(* sequence of string fragments, one character per fragment where the code *)
(* inspects characters; an f-string is the concatenation of its fragments. *)
(* Enumerated strings (stage, status, category) and identifiers (sha,      *)
(* author) are TLA+ strings.  bool is "True" / "False".  Python None is    *)
(* None in a slot that holds strings and NoneT in a slot that holds texts. *)
(* A dict is a function from key names to values; an absent key is absent  *)
(* from its DOMAIN.                                                        *)
(* An Optional[FilterDecision] is <<>> (None) or <<d>>.                    *)
(***************************************************************************)
EXTENDS Integers, Sequences, FiniteSets, TLC

None == "None"
NoneT == <<"None">>
True == "True"
False == "False"

\* ---------------------------------------------------------------- bounds
MaxItems == 2
MaxEntries == 2
MaxStageItems == 2
MaxFiles == 2

\* ------------------------------------------------------- character classes
Lowers == <<"a","b","c","d","e","f","g","h","i","j","k","l","m","n","o","p","q","r","s","t","u","v","w","x","y","z">>
Uppers == <<"A","B","C","D","E","F","G","H","I","J","K","L","M","N","O","P","Q","R","S","T","U","V","W","X","Y","Z">>
Digits == {"0","1","2","3","4","5","6","7","8","9"}
Letters == {Lowers[i] : i \in 1..26} \cup {Uppers[i] : i \in 1..26}
WordChars == Letters \cup Digits \cup {"_"}
Whitespace == {" ", "\t", "\n"}

\* str.lower() on one character / on a text
LowerChar(c) ==
  IF \E i \in 1..26 : Uppers[i] = c
    THEN Lowers[CHOOSE i \in 1..26 : Uppers[i] = c]
    ELSE c

Lower(s) == [i \in 1..Len(s) |-> LowerChar(s[i])]

\* str.strip()
Strip(s) ==
  LET keep == {i \in 1..Len(s) : s[i] \notin Whitespace}
  IN  IF keep = {} THEN <<>>
      ELSE LET lo == CHOOSE i \in keep : \A j \in keep : i <= j
               hi == CHOOSE i \in keep : \A j \in keep : j <= i
           IN  SubSeq(s, lo, hi)

\* `x or ""` for a text slot
OrEmpty(x) == IF x = NoneT THEN <<>> ELSE x

\* first index >= i whose character is outside S (Len(s)+1 when none): the
\* end of a greedy run of a character class
SkipSet(s, i, S) ==
  LET stop == {j \in i..Len(s) : s[j] \notin S}
  IN  IF stop = {} THEN Len(s) + 1
      ELSE CHOOSE j \in stop : \A k \in stop : j <= k

\* literal p (lower case) matches s at index i under re.IGNORECASE
LitAt(s, i, p) ==
  /\ i >= 1
  /\ i + Len(p) - 1 <= Len(s)
  /\ \A k \in 1..Len(p) : LowerChar(s[i + k - 1]) = p[k]

\* `\b` between s[i-1] and s[i]
Boundary(s, i) ==
  LET before == i > 1 /\ i - 1 <= Len(s) /\ s[i - 1] \in WordChars
      after  == i >= 1 /\ i <= Len(s) /\ s[i] \in WordChars
  IN  before # after

\* ------------------------------------------------------------ filtering.py
\* mutant: no subject is taken for a merge commit
MERGE_RENever(s) == FALSE

\* MERGE_RE.match(subject):  ^Merge pull request\s+#\d+\s+   (IGNORECASE)
MERGE_RE(s) ==
  LET p  == <<"m","e","r","g","e"," ","p","u","l","l"," ","r","e","q","u","e","s","t">>
      i1 == Len(p) + 1
      i2 == SkipSet(s, i1, Whitespace)
      i3 == i2 + 1
      i4 == SkipSet(s, i3, Digits)
      i5 == SkipSet(s, i4, Whitespace)
  IN  /\ LitAt(s, 1, p)
      /\ i2 > i1
      /\ i2 <= Len(s)
      /\ s[i2] = "#"
      /\ i4 > i3
      /\ i5 > i4

\* CONVENTIONAL_RE.match(s):  ^(?P<type>[a-zA-Z]+)(\([^)]+\))?:\s+
\* The result is the end index of the type group, 0 when there is no match.
CONVENTIONAL_RE(s) ==
  LET i1 == SkipSet(s, 1, Letters)
      close == {j \in (i1 + 1)..Len(s) : s[j] = ")"}
      j  == IF close = {} THEN 0 ELSE CHOOSE x \in close : \A y \in close : x <= y
      scoped == /\ i1 <= Len(s)
                /\ s[i1] = "("
                /\ j > i1 + 1
      colon == IF scoped THEN j + 1 ELSE i1
  IN  IF /\ i1 > 1
         /\ colon <= Len(s)
         /\ s[colon] = ":"
         /\ SkipSet(s, colon + 1, Whitespace) > colon + 1
      THEN i1 - 1
      ELSE 0

\* One exclude pattern: `^word\b` (anchored) or `\bword\b`; src is the pattern
\* source, which the decision's reason quotes.
DEFAULT_EXCLUDE_SUBJECT_PATTERNS ==
  << [src |-> "\\bbump\\b",    anchored |-> FALSE, word |-> <<"b","u","m","p">>],
     [src |-> "\\bversion\\b", anchored |-> FALSE, word |-> <<"v","e","r","s","i","o","n">>],
     [src |-> "\\brelease\\b", anchored |-> FALSE, word |-> <<"r","e","l","e","a","s","e">>],
     [src |-> "^chore\\b",     anchored |-> TRUE,  word |-> <<"c","h","o","r","e">>],
     [src |-> "^refactor\\b",  anchored |-> TRUE,  word |-> <<"r","e","f","a","c","t","o","r">>],
     [src |-> "^ci\\b",        anchored |-> TRUE,  word |-> <<"c","i">>],
     [src |-> "^test\\b",      anchored |-> TRUE,  word |-> <<"t","e","s","t">>],
     [src |-> "^build\\b",     anchored |-> TRUE,  word |-> <<"b","u","i","l","d">>] >>

DEFAULT_EXCLUDE_BODY_PATTERNS ==
  << [src |-> "\\bbump\\b",    anchored |-> FALSE, word |-> <<"b","u","m","p">>],
     [src |-> "\\bversion\\b", anchored |-> FALSE, word |-> <<"v","e","r","s","i","o","n">>] >>

\* re.search(p, text, flags=re.IGNORECASE) for one exclude pattern
SearchPattern(p, text) ==
  IF p.anchored
    THEN LitAt(text, 1, p.word) /\ Boundary(text, 1 + Len(p.word))
    ELSE \E i \in 1..Len(text) :
           /\ LitAt(text, i, p.word)
           /\ Boundary(text, i)
           /\ Boundary(text, i + Len(p.word))

\* _matches_any: the source of the first pattern that matches, else None
matches_any(patterns, text) ==
  LET hit == {i \in 1..Len(patterns) : SearchPattern(patterns[i], text)}
  IN  IF hit = {} THEN None
      ELSE patterns[CHOOSE i \in hit : \A k \in hit : i <= k].src

\* re.search(p, f, IGNORECASE) for some p of SOFT_INTERNAL_FILE_PATTERNS:
\*   ^\.github/   ^docs?/   ^test/   .*_test\.go$
SOFT_INTERNAL_FILE_PATTERNS(f) ==
  \/ LitAt(f, 1, <<".","g","i","t","h","u","b","/">>)
  \/ LitAt(f, 1, <<"d","o","c","/">>)
  \/ LitAt(f, 1, <<"d","o","c","s","/">>)
  \/ LitAt(f, 1, <<"t","e","s","t","/">>)
  \/ LitAt(f, Len(f) - 7, <<"_","t","e","s","t",".","g","o">>)

\* _soft_internal_files_score: the float internal / max(1, len(files)) as the
\* fraction [num, den]; 0.0 is [num |-> 0, den |-> 1].
soft_internal_files_score(files) ==
  IF Len(files) = 0 THEN [num |-> 0, den |-> 1]
  ELSE [num |-> Cardinality({i \in 1..Len(files) : SOFT_INTERNAL_FILE_PATTERNS(files[i])}),
        den |-> IF Len(files) > 1 THEN Len(files) ELSE 1]

\* detect_type: the lower-cased conventional type, or NoneT
detect_type(subject) ==
  LET s == Strip(subject)
      n == CONVENTIONAL_RE(s)
  IN  IF n = 0 THEN NoneT ELSE Lower(SubSeq(s, 1, n))

\* INCLUDE_TYPES = {"feat": "feature", "fix": "bugfix"}
FEAT == <<"f","e","a","t">>
FIX == <<"f","i","x">>
\* mutant: only feat is a user-facing type
INCLUDE_TYPESFeatOnly == [t \in {FEAT} |-> "feature"]

INCLUDE_TYPES == [t \in {FEAT, FIX} |-> IF t = FEAT THEN "feature" ELSE "bugfix"]

\* Python `needle in hay` on texts
Contains(hay, needle) ==
  \E i \in 1..(Len(hay) - Len(needle) + 1) : SubSeq(hay, i, i + Len(needle) - 1) = needle

FilterDecision(include, reason, stage, confidence) ==
  [include |-> include, reason |-> reason, stage |-> stage, confidence |-> confidence]

\* rule_based_filter: [decision |-> <<>> or <<FilterDecision>>, annotations |-> dict]
rule_based_filter(item) ==
  LET subject == Strip(OrEmpty(item.subject))
      body    == Strip(OrEmpty(item.body))
      files   == item.files
      ctype   == detect_type(subject)
      a1      == [k \in {"conventional_type"} |-> ctype]
      p       == matches_any(DEFAULT_EXCLUDE_SUBJECT_PATTERNS, subject)
      p2      == matches_any(DEFAULT_EXCLUDE_BODY_PATTERNS, body)
      ct      == OrEmpty(ctype)
  IN  IF MERGE_RE(subject)
        THEN [decision |-> <<FilterDecision(False, <<"Excluded merge commit (not user-facing entry).">>, "rules", "0.95")>>,
              annotations |-> <<>>]
      ELSE IF p # None
        THEN [decision |-> <<FilterDecision(False, <<"Excluded by subject pattern: ", p>>, "rules", "0.9")>>,
              annotations |-> a1]
      ELSE IF p2 # None /\ ~Contains(ct, FEAT) /\ ~Contains(ct, FIX)
        THEN [decision |-> <<FilterDecision(False, <<"Excluded by body pattern: ", p2>>, "rules", "0.85")>>,
              annotations |-> a1]
      ELSE IF ctype \in DOMAIN INCLUDE_TYPES
        THEN [decision |-> <<FilterDecision(True, <<"Included as ", INCLUDE_TYPES[ctype], " (conventional commit).">>, "rules", "0.9")>>,
              annotations |-> [k \in {"conventional_type", "suggested_category"} |->
                                 IF k = "conventional_type" THEN ctype ELSE INCLUDE_TYPES[ctype]]]
      ELSE [decision |-> <<>>,
            annotations |-> [k \in {"conventional_type", "internal_files_score"} |->
                               IF k = "conventional_type" THEN ctype
                               ELSE soft_internal_files_score(files)]]

\* ------------------------------------------------------------- harvest.py
\* asdict(CommitChange): one harvested record; url is _github_commit_url for
\* the GitHub repo_url that main passes.
CommitChange(sha, author_name, subject, body, files) ==
  [sha |-> sha, author_name |-> author_name, author_email |-> "dev@example.com",
   author_date |-> "2024-05-01T10:00:00+00:00", subject |-> subject, body |-> body,
   files |-> files, url |-> <<"https://github.com/getlago/lago/commit/", sha>>]

C_MERGE ==
  CommitChange("c_merge", "ana",
    <<"M","e","r","g","e"," ","p","u","l","l"," ","r","e","q","u","e","s","t"," ","#","4","2"," ","f","r","o","m"," ","x","/","y">>,
    <<>>,
    <<<<"a","p","p","/","b","i","l","l","i","n","g",".","r","b">>>>)

C_FEAT ==
  CommitChange("c_feat", "bob",
    <<"f","e","a","t","(","b","i","l","l","i","n","g",")",":"," ","a","d","d"," ","p","r","o","r","a","t","i","o","n">>,
    <<>>,
    <<<<"a","p","p","/","b","i","l","l","i","n","g",".","r","b">>>>)

C_FIX ==
  CommitChange("c_fix", "ana",
    <<"F","i","x",":"," ","c","r","a","s","h"," ","o","n"," ","l","o","g","i","n">>,
    <<>>,
    <<<<"l","i","b","/","l","o","g","i","n",".","g","o">>, <<"l","i","b","/","l","o","g","i","n","_","t","e","s","t",".","g","o">>>>)

C_CHORE ==
  CommitChange("c_chore", "bob",
    <<"c","h","o","r","e",":"," ","b","u","m","p"," ","d","e","p","e","n","d","e","n","c","y"," ","t","o"," ","1",".","2",".","3">>,
    <<>>,
    <<>>)

C_DOCS ==
  CommitChange("c_docs", "ana",
    <<"u","p","d","a","t","e"," ","i","n","t","e","r","n","a","l"," ","d","o","c","s"," ","f","o","r"," ","a","p","i">>,
    <<>>,
    <<<<"d","o","c","s","/","a","p","i",".","m","d">>>>)

C_HOTFIX ==
  CommitChange("c_hotfix", "bob",
    <<"h","o","t","f","i","x",":"," ","p","a","t","c","h"," ","r","o","u","n","d","i","n","g">>,
    <<"b","u","m","p"," ","v","e","r","s","i","o","n"," ","o","f"," ","r","o","u","n","d","i","n","g"," ","l","i","b">>,
    <<<<"a","p","p","/","b","i","l","l","i","n","g",".","r","b">>>>)

C_PERF ==
  CommitChange("c_perf", "ana",
    <<"p","e","r","f",":"," ","s","p","e","e","d"," ","u","p"," ","e","x","p","o","r","t">>,
    <<"v","e","r","s","i","o","n"," ","2"," ","o","f"," ","t","h","e"," ","e","x","p","o","r","t","e","r">>,
    <<<<"a","p","p","/","b","i","l","l","i","n","g",".","r","b">>, <<".","g","i","t","h","u","b","/","c","i",".","y","m","l">>>>)

C_FEATREL ==
  CommitChange("c_featrel", "bob",
    <<"f","e","a","t",":"," ","r","e","l","e","a","s","e"," ","n","e","w"," ","d","a","s","h","b","o","a","r","d">>,
    <<>>,
    <<<<"a","p","p","/","b","i","l","l","i","n","g",".","r","b">>>>)

\* The commits a harvest can return.
Corpus == {C_FEAT, C_FIX, C_CHORE, C_DOCS, C_HOTFIX}

\* harvest_changes returns a list of commits, each commit once
HarvestResults ==
  {s \in UNION {[1..n -> Corpus] : n \in 0..MaxItems} :
     \A i, j \in DOMAIN s : i # j => s[i].sha # s[j].sha}

\* ------------------------------------------------------------ dict helpers
\* d.get(k) where the slot holds strings / texts
Get(d, k) == IF k \in DOMAIN d THEN d[k] ELSE None
GetT(d, k) == IF k \in DOMAIN d THEN d[k] ELSE NoneT

\* d.update(e) on a copy of d
Update(d, e) == [k \in DOMAIN d \cup DOMAIN e |-> IF k \in DOMAIN e THEN e[k] ELSE d[k]]

\* `a or b` on string slots (None and "" are falsy)
Or(a, b) == IF a \in {None, ""} THEN b ELSE a

\* dict(d) without the keys of omit
Without(d, omit) == [k \in DOMAIN d \ omit |-> d[k]]

\* mutant: a record the rules leave open is excluded when all its files are
\* internal paths
CandidateInternalExcluded(it, r) ==
  LET it2 == Update(it, [filter_annotations |-> r.annotations])
  IN  IF r.decision = <<>>
        THEN IF r.annotations.internal_files_score.num = Len(it.files) /\ Len(it.files) > 0
               THEN Update(it2, [include |-> False, filter_reason |-> <<"Excluded: internal files only.">>,
                                 filter_stage |-> "rules"])
               ELSE Update(it2, [include |-> None, filter_reason |-> NoneT, filter_stage |-> "rules"])
        ELSE Update(it2,
               [include           |-> r.decision[1].include,
                filter_reason     |-> r.decision[1].reason,
                filter_stage      |-> r.decision[1].stage,
                filter_confidence |-> r.decision[1].confidence,
                category          |-> Or(Get(it2, "category"), Get(r.annotations, "suggested_category")),
                title             |-> GetT(it2, "title"),
                description       |-> GetT(it2, "description")])

\* filter_candidates, loop body: the derived record it2 for one harvested
\* item and the result r of rule_based_filter on it
Candidate(it, r) ==
  LET it2 == Update(it, [filter_annotations |-> r.annotations])
  IN  IF r.decision = <<>>
        THEN Update(it2, [include |-> None, filter_reason |-> NoneT, filter_stage |-> "rules"])
        ELSE Update(it2,
               [include           |-> r.decision[1].include,
                filter_reason     |-> r.decision[1].reason,
                filter_stage      |-> r.decision[1].stage,
                filter_confidence |-> r.decision[1].confidence,
                category          |-> Or(Get(it2, "category"), Get(r.annotations, "suggested_category")),
                title             |-> GetT(it2, "title"),
                description       |-> GetT(it2, "description")])

\* mutant: it2 is the harvested dict itself, so the updates land in it
ItAfterBodyAliased(it, it2) == it2

\* filter_candidates line 174, it2 = dict(it): the harvested dict it after the
\* loop body has updated the copy it2
ItAfterBody(it, it2) == it

\* filter_candidates, the two result lists: rs[i] is the rule result of
\* its[i]; an item goes to decided when rs[i] carries a decision, to ambiguous
\* otherwise, each list in input order; items is the input list as the loop
\* leaves it
Partition(its, rs) ==
  LET idx == [i \in 1..Len(its) |-> i]
      d   == SelectSeq(idx, LAMBDA i : rs[i].decision # <<>>)
      a   == SelectSeq(idx, LAMBDA i : rs[i].decision = <<>>)
  IN  [decided   |-> [k \in 1..Len(d) |-> Candidate(its[d[k]], rs[d[k]])],
       ambiguous |-> [k \in 1..Len(a) |-> Candidate(its[a[k]], rs[a[k]])],
       items     |-> [i \in 1..Len(its) |-> ItAfterBody(its[i], Candidate(its[i], rs[i]))]]

\* mutant: one annotations dict serves every call
NewAnnotationsShared(left) == left

\* rule_based_filter line 121, annotations = {}: the dict a call starts with,
\* whatever the call before it left in its own
NewAnnotations(left) == <<>>

\* the result r of one call whose annotations dict started as NewAnnotations
CallResult(r, left) ==
  [decision |-> r.decision, annotations |-> Update(NewAnnotations(left), r.annotations)]

\* the results of the calls of rule_based_filter that the loop of
\* filter_candidates makes, in order
RECURSIVE RuleResults(_)
RuleResults(its) ==
  IF its = <<>> THEN <<>>
  ELSE LET before == RuleResults(SubSeq(its, 1, Len(its) - 1))
       IN  Append(before,
                  CallResult(rule_based_filter(its[Len(its)]),
                             IF before = <<>> THEN <<>> ELSE before[Len(before)].annotations))

\* filter_candidates: the (decided, ambiguous) split
filter_candidates(its) == Partition(its, RuleResults(its))

\* --------------------------------------------------------------- schema.py
Category == {"feature", "bugfix"}

\* LLMDecision.model_validate(raw) succeeds: include and reason are required,
\* category is a Category or null, the other fields are optional.
LLMDecisionValid(raw) ==
  /\ "include" \in DOMAIN raw
  /\ raw.include \in {True, False}
  /\ "reason" \in DOMAIN raw
  /\ raw.reason # NoneT
  /\ Get(raw, "category") \in Category \cup {None}
  /\ ("needs_clarification" \in DOMAIN raw => raw.needs_clarification \in {True, False})

\* the validated LLMDecision, defaults filled in
LLMDecision(raw) ==
  [include                |-> raw.include,
   category               |-> Get(raw, "category"),
   title                  |-> GetT(raw, "title"),
   description            |-> GetT(raw, "description"),
   needs_clarification    |-> IF "needs_clarification" \in DOMAIN raw THEN raw.needs_clarification ELSE False,
   clarification_question |-> GetT(raw, "clarification_question"),
   reason                 |-> raw.reason]

\* -------------------------------------------------------- filtering_llm.py
\* mutant: inclusion is looked at before the clarification flag
GatewayStatusIncludeFirst(decision) ==
  IF decision.include = True THEN "included"
  ELSE IF decision.needs_clarification = True THEN "needs_clarification"
  ELSE "excluded"

\* llm_decide_ambiguous, lines 89-93: the status the gateway derives
GatewayStatus(decision) ==
  IF decision.needs_clarification = True THEN "needs_clarification"
  ELSE IF decision.include = True THEN "included"
  ELSE "excluded"

\* llm_decide_ambiguous, lines 95-109: the derived record for one ambiguous
\* item and its validated decision
Resolved(it, decision) ==
  Update(it,
    [include                |-> decision.include,
     filter_stage           |-> "llm",
     filter_reason          |-> decision.reason,
     category               |-> decision.category,
     title                  |-> decision.title,
     description            |-> decision.description,
     needs_clarification    |-> decision.needs_clarification,
     clarification_question |-> decision.clarification_question,
     review_status          |-> GatewayStatus(decision)])

\* ----------------------------------------------------------------- main.py
\* mutant: the status is derived again whether or not one is present
NormalizeItemAlways(it) ==
  Update(it, [review_status |->
    IF Get(it, "needs_clarification") = True THEN "needs_clarification"
    ELSE IF Get(it, "include") = True THEN "included"
    ELSE IF Get(it, "include") = False THEN "excluded"
    ELSE "needs_clarification"])

\* mutant: the status is derived again and the clarification flag, once
\* recorded in the status, is cleared
NormalizeItemConsuming(it) ==
  Update(it, [needs_clarification |-> False,
              review_status |->
                IF Get(it, "needs_clarification") = True THEN "needs_clarification"
                ELSE IF Get(it, "include") = True THEN "included"
                ELSE IF Get(it, "include") = False THEN "excluded"
                ELSE "needs_clarification"])

\* normalize_review_status, loop body
NormalizeItem(it) ==
  IF "review_status" \in DOMAIN it /\ it.review_status \notin {None, ""}
    THEN it
  ELSE LET include == Get(it, "include")
           needs_clarification == Get(it, "needs_clarification") = True
       IN  Update(it, [review_status |->
             IF needs_clarification THEN "needs_clarification"
             ELSE IF include = True THEN "included"
             ELSE IF include = False THEN "excluded"
             ELSE "needs_clarification"])

\* mutant: the combined list is returned as the stages left it
normalize_review_statusSkipped(its) == its

\* normalize_review_status: every item of the list, in place
normalize_review_status(its) == [i \in 1..Len(its) |-> NormalizeItem(its[i])]

\* mutant: the oracle's records first
CombineSwapped(dec, llm) == llm \o dec

\* mutant: the oracle's records are left out
CombineDecidedOnly(dec, llm) == dec

\* run_pipeline, lines 141-143: all_items.extend(decided); extend(llm_results)
Combine(dec, llm) == dec \o llm

\* --------------------------------------------------------------- review.py
ReviewEntry(it) ==
  [sha                    |-> Get(it, "sha"),
   subject                |-> GetT(it, "subject"),
   author                 |-> Get(it, "author_name"),
   url                    |-> GetT(it, "url"),
   review_status          |-> Get(it, "review_status"),
   category               |-> Get(it, "category"),
   title                  |-> GetT(it, "title"),
   description            |-> GetT(it, "description"),
   filter_stage           |-> Get(it, "filter_stage"),
   filter_reason          |-> GetT(it, "filter_reason"),
   needs_clarification    |-> IF "needs_clarification" \in DOMAIN it THEN it.needs_clarification ELSE False,
   clarification_question |-> GetT(it, "clarification_question")]

\* main's fixed arguments and the clock reading of this run
Metadata(generated_at) ==
  [repo |-> "https://github.com/getlago/lago", from_ref |-> "v1.24.0",
   to_ref |-> "v1.25.0", generated_at |-> generated_at]

\* mutant: only the items that can still be published get an entry
build_review_manifestPublishable(its) ==
  LET kept == SelectSeq(its, LAMBDA it : Get(it, "review_status") # "excluded")
  IN  [metadata |-> Metadata("now"),
       entries  |-> [i \in 1..Len(kept) |-> ReviewEntry(kept[i])]]

\* build_review_manifest: metadata and one flattened entry per item
build_review_manifest(its) ==
  [metadata |-> Metadata("now"),
   entries  |-> [i \in 1..Len(its) |-> ReviewEntry(its[i])]]

\* --------------------------------------------------------------- render.py
\* `a or b` on text slots (None and "" are falsy)
OrT(a, b) == IF a \in {NoneT, <<>>} THEN b ELSE a

\* "sep".join(lines)
RECURSIVE Join(_, _)
Join(lines, sep) ==
  IF Len(lines) = 0 THEN <<>>
  ELSE IF Len(lines) = 1 THEN lines[1]
  ELSE lines[1] \o sep \o Join(Tail(lines), sep)

\* the prefixes _clean_title_from_subject strips
CleanPrefixes ==
  { <<"f","e","a","t">>, <<"f","i","x">>, <<"c","h","o","r","e">>, <<"r","e","f","a","c","t","o","r">>, <<"m","i","s","c">>, <<"c","i">>, <<"t","e","s","t">>, <<"b","u","i","l","d">> }

\* _clean_title_from_subject
clean_title_from_subject(subject) ==
  LET s == Strip(subject)
      colons == {i \in 1..Len(s) : s[i] = ":"}
      c == CHOOSE i \in colons : \A j \in colons : i <= j
  IN  IF /\ \E p \in CleanPrefixes : LitAt(s, 1, p \o <<"(">>) \/ LitAt(s, 1, p \o <<":">>)
         /\ colons # {}
      THEN Strip(SubSeq(s, c + 1, Len(s)))
      ELSE s

\* _fallback_description
fallback_description(e) == <<"Includes change: ">> \o OrT(GetT(e, "subject"), <<>>)

\* fmt_entry: one public bullet
fmt_entry(e) ==
  LET t0     == Strip(OrT(GetT(e, "title"), <<>>))
      title  == IF t0 = <<>>
                  THEN clean_title_from_subject(OrT(GetT(e, "subject"), <<"Untitled change">>))
                  ELSE t0
      d0     == Strip(OrT(GetT(e, "description"), <<>>))
      desc   == IF d0 = <<>> THEN fallback_description(e) ELSE d0
      author == Or(Get(e, "author"), "Unknown")
      url    == GetT(e, "url")
      link   == IF url \in {NoneT, <<>>} THEN <<>> ELSE <<" ([details](">> \o url \o <<"))">>
  IN  <<"- **">> \o title \o <<"**">> \o link \o <<"\n  - ">> \o desc
        \o <<"\n  - Author: ", author, "\n">>

\* the bullet of the internal section
clarification_line(e) ==
  <<"- ">> \o GetT(e, "subject") \o <<"\n  - Question: ">>
    \o OrT(GetT(e, "clarification_question"), <<"Clarification needed.">>)
    \o <<"\n  - Author: ", Get(e, "author"), "\n">>

\* mutant: everything not excluded is published
IncludedUnlessExcluded(entries) == SelectSeq(entries, LAMBDA e : Get(e, "review_status") # "excluded")

\* mutant: an oracle decision is published only after a rule confirmed it
IncludedFromRules(entries) ==
  SelectSeq(entries, LAMBDA e : Get(e, "review_status") = "included" /\ Get(e, "filter_stage") # "llm")

\* render_release_notes_markdown, line 74: the entries that are published
Included(entries) == SelectSeq(entries, LAMBDA e : Get(e, "review_status") = "included")

\* mutant: included entries without a publishable category are listed in the
\* internal section
NeedsClarOrUncategorised(entries) ==
  SelectSeq(entries, LAMBDA e :
    \/ Get(e, "review_status") = "needs_clarification"
    \/ Get(e, "review_status") = "included" /\ Get(e, "category") \notin {"feature", "bugfix"})

\* render_release_notes_markdown, line 121: the entries of the internal section
NeedsClar(entries) == SelectSeq(entries, LAMBDA e : Get(e, "review_status") = "needs_clarification")

FeaturesHeader == "## Features\n"
BugFixesHeader == "## Bug Fixes\n"
InternalRule == "\n---\n"
InternalHeader == "## Needs clarification (internal)\n"

\* render_release_notes_markdown: the Markdown text
render_release_notes_markdown(manifest) ==
  LET meta     == manifest.metadata
      entries  == manifest.entries
      included == Included(entries)
      features == SelectSeq(included, LAMBDA e : Get(e, "category") = "feature")
      bugfixes == SelectSeq(included, LAMBDA e : Get(e, "category") = "bugfix")
      needs_clar == NeedsClar(entries)
      head  == << <<"# Release Notes\n">> >>
               \o (IF meta.repo # "" \/ meta.from_ref # "" \/ meta.to_ref # ""
                     THEN << <<"_Repository: ", meta.repo, "_\n">>,
                             <<"_Changes: ", meta.from_ref, " -> ", meta.to_ref, "_\n">> >>
                     ELSE <<>>)
               \o (IF meta.generated_at # ""
                     THEN << <<"_Generated at: ", meta.generated_at, "_\n">> >>
                     ELSE <<>>)
      feat  == << <<FeaturesHeader>> >>
               \o (IF Len(features) > 0
                     THEN [i \in 1..Len(features) |-> fmt_entry(features[i])]
                     ELSE << <<"_No user-facing features detected._\n">> >>)
      bugs  == << <<BugFixesHeader>> >>
               \o (IF Len(bugfixes) > 0
                     THEN [i \in 1..Len(bugfixes) |-> fmt_entry(bugfixes[i])]
                     ELSE << <<"_No user-facing bug fixes detected._\n">> >>)
      clar  == IF Len(needs_clar) > 0
                 THEN << <<InternalRule>>, <<InternalHeader>> >>
                      \o [i \in 1..Len(needs_clar) |-> clarification_line(needs_clar[i])]
                 ELSE <<>>
  IN  Join(head \o feat \o bugs \o clar, <<"\n">>)

\* ------------------------------------------------------------ the oracle
\* texts an oracle may write; the long ones exceed the 70 / 240 characters
\* the prompt asks for (filtering_llm.py lines 65-67)
LongTitle == [i \in 1..71 |-> "x"]
LongDescription == [i \in 1..241 |-> "y"]

OraclePayload(inc, cat, title, description, nc, q) ==
  [include |-> inc, category |-> cat, title |-> title, description |-> description,
   needs_clarification |-> nc, clarification_question |-> q, reason |-> <<"because">>]

\* a payload whose mandatory reason is the empty string
EmptyReasonPayload ==
  [OraclePayload(False, None, NoneT, NoneT, False, NoneT) EXCEPT !.reason = <<>>]

\* payloads with every field of the schema: each include value with a
\* category of the schema, none, or one outside it, and with no clarification
\* asked, one asked without a question, or one asked with a question
OracleFull ==
  { OraclePayload(inc, cat, <<"T">>, <<"D">>, c.nc, c.q) :
      inc \in {True, False}, cat \in {"feature", None, "other"},
      c \in { [nc |-> False, q |-> NoneT], [nc |-> True, q |-> NoneT],
              [nc |-> True, q |-> <<"Which users?">>] } }
  \cup { OraclePayload(True, "feature", LongTitle, <<"D">>, False, NoneT),
         OraclePayload(True, "bugfix", <<"T">>, LongDescription, False, NoneT),
         EmptyReasonPayload }

\* what chat_json can return: a full payload, or one with fields missing
OracleResponses ==
  OracleFull
  \cup { Without(full, omit) :
           full \in { OraclePayload(True, "feature", <<"T">>, <<"D">>, False, NoneT),
                      OraclePayload(False, None, NoneT, NoneT, True, <<"Which users?">>) },
           omit \in { {"reason"}, {"include"},
                      {"category", "title", "description", "needs_clarification", "clarification_question"} } }

\* --------------------------------------------------------------- the state
VARIABLES
  pc,           \* position of main: start, harvested, filtered, returned, written, rendered, failed
  error,        \* the stage whose exception main caught ("" when none)
  items,        \* run_pipeline: the harvested records
  decided,      \* run_pipeline: records the rules decided
  ambiguous,    \* run_pipeline: records left to the oracle
  llm_results,  \* llm_decide_ambiguous: out
  all_items,    \* run_pipeline: the combined list
  oracle_log,   \* the sha of the record of every chat_json call made, in order
  manifest,     \* main: the manifest built in memory (<<>> before it is built)
  file,         \* outputs/review.json (<<>> when the file does not exist)
  file_before,  \* outputs/review.json as the run found it
  writes,       \* number of times main wrote outputs/review.json
  loaded,       \* main: the manifest read back (<<>> before it is read)
  md            \* main: the rendered Markdown

vars == <<pc, error, items, decided, ambiguous, llm_results, all_items, oracle_log,
          manifest, file, file_before, writes, loaded, md>>

\* a manifest left in outputs/ by an earlier run
PreviousManifest ==
  [metadata |-> Metadata("earlier"),
   entries  |-> << ReviewEntry(Update(CommitChange("c_old", "ana", <<"f","i","x",":"," ","o","l","d">>, <<>>, <<>>),
                                       [review_status |-> "included", category |-> "bugfix"])) >>]

Init ==
  /\ pc = "start"
  /\ error = ""
  /\ items = <<>>
  /\ decided = <<>>
  /\ ambiguous = <<>>
  /\ llm_results = <<>>
  /\ all_items = <<>>
  /\ oracle_log = <<>>
  /\ manifest = <<>>
  /\ file \in {<<>>, PreviousManifest}
  /\ file_before = file
  /\ writes = 0
  /\ loaded = <<>>
  /\ md = <<>>

\* mutant: the failure is recorded but the run carries on with what it has
AbortContinue(stage) ==
  /\ pc' = "returned"
  /\ error' = stage

\* main line 166: the exception of run_pipeline is caught, main returns 1
Abort(stage) ==
  /\ pc' = "failed"
  /\ error' = stage

\* run_pipeline line 126: harvest_changes returns
HarvestOk ==
  /\ pc = "start"
  /\ \E h \in HarvestResults : items' = h
  /\ pc' = "harvested"
  /\ UNCHANGED <<error, decided, ambiguous, llm_results, all_items, oracle_log,
                 manifest, file, file_before, writes, loaded, md>>

\* run_pipeline line 126: harvest_changes raises (GitError)
HarvestFail ==
  /\ pc = "start"
  /\ Abort("harvest")
  /\ UNCHANGED <<items, decided, ambiguous, llm_results, all_items, oracle_log,
                 manifest, file, file_before, writes, loaded, md>>

\* run_pipeline line 134
Filter ==
  /\ pc = "harvested"
  /\ LET split == filter_candidates(items)
     IN  /\ decided' = split.decided
         /\ ambiguous' = split.ambiguous
         /\ items' = split.items
  /\ pc' = "filtered"
  /\ UNCHANGED <<error, llm_results, all_items, oracle_log,
                 manifest, file, file_before, writes, loaded, md>>

\* mutant: every candidate is escalated
GatewayInputAll == decided \o ambiguous

\* run_pipeline line 139: the list handed to llm_decide_ambiguous
GatewayInput == ambiguous

\* llm_decide_ambiguous: the loop has a next item
GatewayBusy == pc = "filtered" /\ Len(llm_results) < Len(GatewayInput)

\* llm_decide_ambiguous, one iteration: chat_json returns raw; the validated
\* decision is appended, or model_validate raises and the run aborts
OracleCall ==
  /\ GatewayBusy
  /\ LET it == GatewayInput[Len(llm_results) + 1]
     IN  /\ oracle_log' = Append(oracle_log, it.sha)
         /\ \E raw \in OracleResponses :
              IF LLMDecisionValid(raw)
                THEN /\ llm_results' = Append(llm_results, Resolved(it, LLMDecision(raw)))
                     /\ UNCHANGED <<pc, error>>
                ELSE /\ Abort("oracle")
                     /\ UNCHANGED llm_results
  /\ UNCHANGED <<items, decided, ambiguous, all_items,
                 manifest, file, file_before, writes, loaded, md>>

\* llm_decide_ambiguous, one iteration: chat_json itself raises (transport
\* error, reply that is not JSON)
OracleRaises ==
  /\ GatewayBusy
  /\ oracle_log' = Append(oracle_log, GatewayInput[Len(llm_results) + 1].sha)
  /\ Abort("oracle")
  /\ UNCHANGED <<items, decided, ambiguous, llm_results, all_items,
                 manifest, file, file_before, writes, loaded, md>>

\* run_pipeline lines 141-147: combine, normalize in place, return.  The
\* dicts of all_items are the dicts of decided and llm_results, so the
\* in-place normalization shows in those lists too.
Assemble ==
  /\ pc = "filtered"
  /\ ~GatewayBusy
  /\ all_items' = normalize_review_status(Combine(decided, llm_results))
  /\ decided' = normalize_review_status(decided)
  /\ llm_results' = normalize_review_status(llm_results)
  /\ pc' = "returned"
  /\ UNCHANGED <<error, items, ambiguous, oracle_log,
                 manifest, file, file_before, writes, loaded, md>>

\* main lines 191-201: build the manifest and write outputs/review.json
BuildAndWrite ==
  /\ pc = "returned"
  /\ manifest' = build_review_manifest(all_items)
  /\ file' = manifest'
  /\ writes' = writes + 1
  /\ pc' = "written"
  /\ UNCHANGED <<error, items, decided, ambiguous, llm_results, all_items, oracle_log,
                 file_before, loaded, md>>

\* what a person may do to outputs/review.json during the pause: switch the
\* status of the first entry and give it a title
HumanEdits(m) ==
  IF Len(m.entries) = 0 THEN {}
  ELSE { [m EXCEPT !.entries[1] =
            Update(@, [review_status |-> IF Get(@, "review_status") = "included"
                                           THEN "excluded" ELSE "included",
                       title |-> <<"Edited title">>])] }

\* main lines 209-211: the pause, during which a person edits the file
HumanEdit ==
  /\ pc = "written"
  /\ file = manifest
  /\ \E m \in HumanEdits(file) : file' = m
  /\ UNCHANGED <<pc, error, items, decided, ambiguous, llm_results, all_items, oracle_log,
                 manifest, file_before, writes, loaded, md>>

\* mutant: the manifest object built before the pause is used again
load_review_manifestInMemory == manifest

\* load_review_manifest(Path("outputs/review.json")): the file as it is now
load_review_manifest == file

\* main lines 213-214: read outputs/review.json back and render it
LoadAndRender ==
  /\ pc = "written"
  /\ loaded' = load_review_manifest
  /\ md' = render_release_notes_markdown(load_review_manifest)
  /\ pc' = "rendered"
  /\ UNCHANGED <<error, items, decided, ambiguous, llm_results, all_items, oracle_log,
                 manifest, file, file_before, writes>>

Next ==
  \/ HarvestOk
  \/ HarvestFail
  \/ Filter
  \/ OracleCall
  \/ OracleRaises
  \/ Assemble
  \/ BuildAndWrite
  \/ HumanEdit
  \/ LoadAndRender

Spec == Init /\ [][Next]_vars

\* ------------------------------------------------- the renderer on its own
\* the commits the entries of a hand-edited manifest stem from, by position
EntryBases == <<C_FEAT, C_DOCS, C_FIX, C_CHORE>>

\* provenance as the pipeline or a person may have left it, by position
ProvenancePatterns ==
  { [i \in 1..Len(EntryBases) |-> [filter_stage |-> "rules", filter_reason |-> <<"by rule">>]],
    [i \in 1..Len(EntryBases) |-> [filter_stage |-> "llm", filter_reason |-> <<"because">>]],
    [i \in 1..Len(EntryBases) |->
       IF i % 2 = 1 THEN [filter_stage |-> "llm", filter_reason |-> <<"because">>]
                    ELSE [filter_stage |-> "rules", filter_reason |-> NoneT]] }

\* what a person may leave in review_status; "absent" stands for a deleted key
EditedStatuses == {"included", "excluded", "needs_clarification", None, "", "absent"}

\* entry i of a manifest as read back: built by the builder, then edited
EditedEntry(i, status, category, prov) ==
  LET texts == IF i % 2 = 0
                 THEN [title |-> <<"T">>, description |-> <<"D">>,
                       clarification_question |-> <<"Which users?">>]
                 ELSE [title |-> NoneT, description |-> NoneT, clarification_question |-> NoneT]
      e == Update(ReviewEntry(Update(EntryBases[i], texts)),
                  [category |-> category, filter_stage |-> prov.filter_stage,
                   filter_reason |-> prov.filter_reason])
  IN  IF status = "absent" THEN Without(e, {"review_status"})
      ELSE Update(e, [review_status |-> status])

\* the category left in entry i: feature, bugfix, or neither, which is null
\* at odd positions and a value outside the schema at even ones
CategoryLeft(i, cat) == IF cat = None /\ i % 2 = 0 THEN "improvement" ELSE cat

\* the manifests outputs/review.json may hold when main reads it back
RenderInputs ==
  { [metadata |-> Metadata("now"),
     entries  |-> [i \in 1..n |-> EditedEntry(i, st[i], CategoryLeft(i, cat[i]), prov[i])]] :
      n \in 0..MaxEntries,
      st \in [1..MaxEntries -> EditedStatuses],
      cat \in [1..MaxEntries -> Category \cup {None}],
      prov \in ProvenancePatterns }

InitRender ==
  /\ pc = "written"
  /\ error = ""
  /\ items = <<>>
  /\ decided = <<>>
  /\ ambiguous = <<>>
  /\ llm_results = <<>>
  /\ all_items = <<>>
  /\ oracle_log = <<>>
  /\ manifest = <<>>
  /\ file \in RenderInputs
  /\ file_before = <<>>
  /\ writes = 1
  /\ loaded = <<>>
  /\ md = <<>>

NextRender == LoadAndRender

SpecRender == InitRender /\ [][NextRender]_vars

\* ------------------------------- the stages after classification on their own
\* a rules-stage record for the commit at position i, with the tri-state
\* include of a Decision, an optional clarification flag and an optional
\* status already present ("absent" stands for a key that is not there)
StageItem(i, include, nc, status) ==
  LET base == Update(EntryBases[i],
                [filter_annotations |-> <<>>, include |-> include, filter_stage |-> "rules",
                 filter_reason |-> <<"by rule">>, category |-> None,
                 title |-> NoneT, description |-> NoneT])
      b2   == IF nc = "absent" THEN base ELSE Update(base, [needs_clarification |-> nc])
  IN  IF status = "absent" THEN b2 ELSE Update(b2, [review_status |-> status])

StageInputs ==
  { [i \in 1..n |-> StageItem(i, inc[i], nc[i], st[i])] :
      n \in 0..MaxStageItems,
      inc \in [1..MaxStageItems -> {True, False, None}],
      nc \in [1..MaxStageItems -> {"absent", True, False}],
      st \in [1..MaxStageItems -> {"absent", "excluded"}] }

InitStages ==
  /\ pc = "filtered"
  /\ error = ""
  /\ items = <<>>
  /\ decided \in StageInputs
  /\ ambiguous \in {<<>>, <<Candidate(C_HOTFIX, rule_based_filter(C_HOTFIX))>>}
  /\ llm_results = <<>>
  /\ all_items = <<>>
  /\ oracle_log = <<>>
  /\ manifest = <<>>
  /\ file = <<>>
  /\ file_before = <<>>
  /\ writes = 0
  /\ loaded = <<>>
  /\ md = <<>>

NextStages ==
  \/ OracleCall
  \/ OracleRaises
  \/ Assemble

SpecStages == InitStages /\ [][NextStages]_vars

\* ----------------------------------------------- the classifier on its own
\* paths of affected files
DocsPath == <<"d","o","c","s","/","a","p","i",".","m","d">>
AppPath == <<"a","p","p","/","b","i","l","l","i","n","g",".","r","b">>
TestGoPath == <<"l","i","b","/","l","o","g","i","n","_","t","e","s","t",".","g","o">>
Paths == {DocsPath, AppPath, TestGoPath}

\* the file lists of a harvested record
FileLists == UNION {[1..n -> Paths] : n \in 0..MaxFiles}

\* how a subject may start: a conventional type feat or fix in either case,
\* with or without a scope; another conventional type; no type; a maintenance
\* type; the subject of a merge commit
FeatPrefixes ==
  { <<"f","e","a","t",":"," ">>,
    <<"f","e","a","t","(","b","i","l","l","i","n","g",")",":"," ">> }
FixPrefixes ==
  { <<"F","i","x",":"," ">>,
    <<"F","I","X","(","a","p","i",")",":"," ">> }
OtherTypePrefixes ==
  { <<"d","o","c","s",":"," ">>,
    <<"h","o","t","f","i","x",":"," ">>,
    <<"f","e","a","t","u","r","e",":"," ">>,
    <<"p","r","e","f","i","x",":"," ">> }
NoPrefix == { <<>> }
MaintenancePrefixes ==
  { <<"c","h","o","r","e",":"," ">> }
MergePrefixes ==
  { <<"M","e","r","g","e"," ","p","u","l","l"," ","r","e","q","u","e","s","t"," ","#","4","2"," ","f","r","o","m"," ">> }
SubjectPrefixes ==
  FeatPrefixes \cup FixPrefixes \cup OtherTypePrefixes \cup NoPrefix
    \cup MaintenancePrefixes \cup MergePrefixes

\* how a subject may go on: plain words, or words of the subject patterns
PlainRests ==
  { <<"a","d","d"," ","p","r","o","r","a","t","i","o","n">>,
    <<"u","p","d","a","t","e"," ","i","n","t","e","r","n","a","l"," ","d","o","c","s"," ","f","o","r"," ","a","p","i">> }
MaintenanceRests ==
  { <<"b","u","m","p"," ","d","e","p","s">>,
    <<"n","e","w"," ","r","e","l","e","a","s","e"," ","f","l","o","w">> }
SubjectRests == PlainRests \cup MaintenanceRests

\* commit bodies: plain, or with words of the body patterns
PlainBodies ==
  { <<>>,
    <<"a","d","d","s"," ","a","p","i">> }
VersionBodies ==
  { <<"b","u","m","p"," ","v","e","r","s","i","o","n"," ","o","f"," ","r","o","u","n","d","i","n","g"," ","l","i","b">> }
Bodies == PlainBodies \cup VersionBodies

\* two harvested records that differ only in their files
ClassifyInputs ==
  { << CommitChange("c_x", "ana", pre \o rest, body, f1),
       CommitChange("c_x", "ana", pre \o rest, body, f2) >> :
      pre \in SubjectPrefixes, rest \in SubjectRests, body \in Bodies,
      f1 \in FileLists, f2 \in {<<DocsPath>>} }

InitClassify ==
  /\ pc = "harvested"
  /\ error = ""
  /\ items \in ClassifyInputs
  /\ decided = <<>>
  /\ ambiguous = <<>>
  /\ llm_results = <<>>
  /\ all_items = <<>>
  /\ oracle_log = <<>>
  /\ manifest = <<>>
  /\ file = <<>>
  /\ file_before = <<>>
  /\ writes = 0
  /\ loaded = <<>>
  /\ md = <<>>

NextClassify == Filter

SpecClassify == InitClassify /\ [][NextClassify]_vars

\* ------------------------------------------------------------------ claims
ItemsBuilt == pc \in {"returned", "written", "rendered"}

ShaOf(its) == [i \in 1..Len(its) |-> its[i].sha]

\* position of a sha in the harvested list
HarvestPos(sha) == CHOOSE i \in 1..Len(items) : items[i].sha = sha

\* C1: every oracle call is for a record the rules left ambiguous, no record
\* is submitted twice, and with nothing ambiguous no call is made.
C1_OracleOnlyForAmbiguous ==
  /\ \A k \in 1..Len(oracle_log) :
       \E i \in 1..Len(ambiguous) :
         /\ ambiguous[i].sha = oracle_log[k]
         /\ ambiguous[i].include = None
         /\ "filter_confidence" \notin DOMAIN ambiguous[i]
  /\ \A k, l \in 1..Len(oracle_log) : k # l => oracle_log[k] # oracle_log[l]
  /\ (pc \notin {"start", "harvested"} /\ ambiguous = <<>>) => oracle_log = <<>>

C1_Witness ==
  /\ pc = "returned"
  /\ Len(decided) = 1
  /\ Len(oracle_log) = 1

\* C2: all_items is decided followed by the oracle-resolved list, and each of
\* the two lists keeps the order of the harvested input.
C2_OrderPreserved ==
  ItemsBuilt =>
    /\ all_items = decided \o llm_results
    /\ \A L \in {decided, llm_results} :
         \A a, b \in 1..Len(L) :
           a < b => HarvestPos(L[a].sha) < HarvestPos(L[b].sha)

C2_Witness ==
  /\ pc = "returned"
  /\ Len(decided) = 1
  /\ Len(llm_results) = 1
  /\ HarvestPos(llm_results[1].sha) < HarvestPos(decided[1].sha)

\* C3: when an oracle call fails the run stops there: the failing record gets
\* no derived record, nothing is returned, built, written or rendered.
C3_OracleFailureAborts ==
  error = "oracle" =>
    /\ pc = "failed"
    /\ oracle_log # <<>>
    /\ \A i \in 1..Len(llm_results) : llm_results[i].sha # oracle_log[Len(oracle_log)]
    /\ all_items = <<>>
    /\ manifest = <<>>
    /\ writes = 0
    /\ file = file_before
    /\ loaded = <<>>
    /\ md = <<>>

C3_Witness ==
  /\ error = "oracle"
  /\ Len(llm_results) = 1
  /\ Len(oracle_log) = 2

\* C4: when harvesting fails the run stops there: nothing is classified, no
\* oracle call is made, no manifest is built and the manifest file is as the
\* run found it.
C4_HarvestFailureAborts ==
  error = "harvest" =>
    /\ pc = "failed"
    /\ decided = <<>>
    /\ ambiguous = <<>>
    /\ oracle_log = <<>>
    /\ all_items = <<>>
    /\ manifest = <<>>
    /\ writes = 0
    /\ file = file_before

C4_Witness ==
  /\ error = "harvest"
  /\ file = PreviousManifest

\* the derived records the pipeline holds
Derived == {decided[i] : i \in 1..Len(decided)}
             \cup {llm_results[i] : i \in 1..Len(llm_results)}
             \cup {all_items[i] : i \in 1..Len(all_items)}

\* C5: a derived record with a category is an included one.
C5_CategoryImpliesInclude ==
  \A it \in Derived : Get(it, "category") # None => it.include = True

\* C6: a derived record that needs clarification carries a question.
C6_ClarificationHasQuestion ==
  \A it \in Derived :
    Get(it, "needs_clarification") = True =>
      GetT(it, "clarification_question") \notin {NoneT, <<>>}

\* first index of a fragment in a text, 0 when it does not occur
PosOf(text, frag) ==
  LET at == {i \in 1..Len(text) : text[i] = frag}
  IN  IF at = {} THEN 0 ELSE CHOOSE i \in at : \A j \in at : i <= j

\* line occurs in text as a contiguous run
Occurs(text, line) ==
  \E i \in 1..(Len(text) - Len(line) + 1) :
    /\ text[i] = line[1]
    /\ SubSeq(text, i, i + Len(line) - 1) = line

\* the parts of the rendered Markdown
InternalStart == IF PosOf(md, InternalRule) = 0 THEN Len(md) + 1 ELSE PosOf(md, InternalRule)
FeaturesSection == SubSeq(md, PosOf(md, FeaturesHeader) + 1, PosOf(md, BugFixesHeader) - 1)
BugFixesSection == SubSeq(md, PosOf(md, BugFixesHeader) + 1, InternalStart - 1)
InternalSection == SubSeq(md, InternalStart, Len(md))

InPublic(e) == Occurs(FeaturesSection, fmt_entry(e)) \/ Occurs(BugFixesSection, fmt_entry(e))
InInternal(e) == Occurs(InternalSection, clarification_line(e))

LoadedEntries == {loaded.entries[i] : i \in 1..Len(loaded.entries)}

\* C7: an entry read back without a review_status is not published and is
\* listed in the internal needs-clarification section.
C7_MissingStatusSurfaced ==
  pc = "rendered" =>
    \A e \in LoadedEntries :
      Get(e, "review_status") \in {None, ""} => ~InPublic(e) /\ InInternal(e)

\* C8: only entries marked included reach the public sections; entries marked
\* needs_clarification are listed in the internal section and nowhere else;
\* entries marked excluded are listed nowhere.
C8_PublicOnlyIncluded ==
  pc = "rendered" =>
    \A e \in LoadedEntries :
      /\ InPublic(e) => Get(e, "review_status") = "included"
      /\ Get(e, "review_status") = "needs_clarification" => InInternal(e) /\ ~InPublic(e)
      /\ Get(e, "review_status") = "excluded" => ~InInternal(e) /\ ~InPublic(e)

C8_Witness ==
  /\ pc = "rendered"
  /\ \E e \in LoadedEntries : Get(e, "review_status") = "included" /\ InPublic(e)
  /\ \E e \in LoadedEntries :
       /\ Get(e, "review_status") = "needs_clarification"
       /\ Get(e, "category") = "feature"
       /\ InInternal(e)

\* the manifest with the provenance fields of every entry replaced
WithProvenance(m, stage, reason) ==
  [m EXCEPT !.entries =
     [i \in 1..Len(m.entries) |->
        Update(m.entries[i], [filter_stage |-> stage, filter_reason |-> reason])]]

\* C9: manifests that differ only in filter_stage / filter_reason render to
\* the same Markdown: the output equals that of the manifest with those
\* fields overwritten or removed.
C9_ProvenanceIgnored ==
  pc = "rendered" =>
    /\ render_release_notes_markdown(WithProvenance(loaded, "rules", <<"by rule">>)) = md
    /\ render_release_notes_markdown(WithProvenance(loaded, "llm", <<"guess">>)) = md
    /\ render_release_notes_markdown(
         [loaded EXCEPT !.entries =
            [i \in 1..Len(loaded.entries) |->
               Without(loaded.entries[i], {"filter_stage", "filter_reason"})]]) = md

C9_Witness ==
  /\ pc = "rendered"
  /\ \E e \in LoadedEntries : Get(e, "filter_stage") = "llm" /\ InPublic(e)
  /\ \E e \in LoadedEntries : Get(e, "filter_stage") = "rules" /\ InPublic(e)

\* the item carries no usable review_status
HasNoStatus(it) == Get(it, "review_status") \in {None, ""}

\* the status the claim prescribes for an item without one
ExpectedStatus(it) ==
  IF Get(it, "needs_clarification") = True THEN "needs_clarification"
  ELSE IF Get(it, "include") = True THEN "included"
  ELSE IF Get(it, "include") = False THEN "excluded"
  ELSE "needs_clarification"

\* C10: the gateway and the normalizer derive the status of an item that has
\* none by the same table: the clarification flag wins, then include decides,
\* and an unknown include gives needs_clarification.
C10_StatusDerivation ==
  [][ /\ (pc = "filtered" /\ pc' = "returned") =>
           \A i \in 1..Len(decided) :
             HasNoStatus(decided[i]) =>
               /\ all_items'[i].review_status = ExpectedStatus(decided[i])
               /\ decided'[i].review_status = ExpectedStatus(decided[i])
      /\ Len(llm_results') > Len(llm_results) =>
           LET it == llm_results'[Len(llm_results')]
           IN  /\ HasNoStatus(ambiguous[Len(llm_results')])
               /\ it.review_status = ExpectedStatus(it)
    ]_vars

C10_Witness ==
  /\ pc = "returned"
  /\ \E i \in 1..Len(all_items) :
       /\ all_items[i].filter_stage = "rules"
       /\ all_items[i].include = None
       /\ Get(all_items[i], "needs_clarification") # True
       /\ all_items[i].review_status = "needs_clarification"
  /\ \E i \in 1..Len(all_items) :
       /\ all_items[i].filter_stage = "rules"
       /\ all_items[i].include = False
       /\ Get(all_items[i], "needs_clarification") = True
       /\ all_items[i].review_status = "needs_clarification"
  /\ \E i \in 1..Len(all_items) :
       /\ all_items[i].filter_stage = "llm"
       /\ all_items[i].include = True
       /\ all_items[i].needs_clarification = True
       /\ all_items[i].review_status = "needs_clarification"

\* the combined list as it enters normalize_review_status
Entering == Combine(decided, llm_results)

\* C11: an item that enters normalize_review_status with a non-empty
\* review_status leaves it with that status and every other field unchanged,
\* whatever its include and needs_clarification are.
C11_StatusNotOverwritten ==
  [][ (pc = "filtered" /\ pc' = "returned") =>
        \A i \in 1..Len(Entering) :
          ~HasNoStatus(Entering[i]) =>
            /\ all_items'[i] = Entering[i]
            /\ Combine(decided', llm_results')[i] = Entering[i]
    ]_vars

C11_Witness ==
  /\ pc = "returned"
  /\ \E i \in 1..Len(all_items) :
       /\ all_items[i].filter_stage = "rules"
       /\ all_items[i].review_status = "excluded"
       /\ all_items[i].include = True
       /\ Get(all_items[i], "needs_clarification") = True
  /\ \E i \in 1..Len(all_items) :
       /\ all_items[i].filter_stage = "rules"
       /\ all_items[i].review_status = "excluded"
       /\ all_items[i].include = None

\* C12: normalizing a list twice gives what normalizing it once gives: for the
\* lists the stages hold, and for the list run_pipeline returns, which already
\* went through it once.
C12_Idempotent ==
  /\ normalize_review_status(normalize_review_status(decided)) = normalize_review_status(decided)
  /\ normalize_review_status(normalize_review_status(llm_results)) = normalize_review_status(llm_results)
  /\ pc = "returned" => normalize_review_status(all_items) = all_items

C12_Witness ==
  /\ pc = "returned"
  /\ Len(all_items) = 3
  /\ all_items[1].include = True
  /\ Get(all_items[1], "needs_clarification") = True
  /\ all_items[1].review_status = "needs_clarification"
  /\ all_items[2].include = False
  /\ all_items[2].review_status = "excluded"
  /\ all_items[3].filter_stage = "llm"

Statuses == {"included", "excluded", "needs_clarification"}

\* C13: after a successful run_pipeline every item of all_items, and every
\* entry of the manifest built from it, has a review_status field holding one
\* of included, excluded, needs_clarification.
C13_CanonicalStatus ==
  /\ ItemsBuilt =>
       \A i \in 1..Len(all_items) :
         "review_status" \in DOMAIN all_items[i] /\ all_items[i].review_status \in Statuses
  /\ manifest # <<>> =>
       \A i \in 1..Len(manifest.entries) :
         "review_status" \in DOMAIN manifest.entries[i]
           /\ manifest.entries[i].review_status \in Statuses

C13_Witness ==
  /\ pc = "written"
  /\ Len(manifest.entries) = 2
  /\ manifest.entries[1].filter_stage = "rules"
  /\ manifest.entries[1].review_status = "excluded"
  /\ manifest.entries[2].filter_stage = "llm"
  /\ manifest.entries[2].review_status = "needs_clarification"

\* number of characters of a title or description (the oracle's texts hold
\* one character per fragment; a null text has none)
TextLen(t) == IF t = NoneT THEN 0 ELSE Len(t)

\* the entries of the manifest main built
ManifestEntries == IF manifest = <<>> THEN {} ELSE {manifest.entries[i] : i \in 1..Len(manifest.entries)}

\* C15: no oracle response with a title longer than 70 characters or a
\* description longer than 240 characters becomes a derived record or an
\* entry of the manifest.
C15_LengthLimitsEnforced ==
  \A it \in Derived \cup ManifestEntries :
    /\ TextLen(GetT(it, "title")) <= 70
    /\ TextLen(GetT(it, "description")) <= 240

\* C16: every item of all_items carries a non-empty reason and a stage marker.
C16_Explainable ==
  \A i \in 1..Len(all_items) :
    /\ GetT(all_items[i], "filter_reason") \notin {NoneT, <<>>}
    /\ Get(all_items[i], "filter_stage") \in {"rules", "llm"}

\* C17: normalizing the entries of the manifest built from the normalized
\* items of a run changes no entry.
C17_RoundTripStable ==
  manifest # <<>> => normalize_review_status(manifest.entries) = manifest.entries

C17_Witness ==
  /\ pc = "written"
  /\ \E e \in ManifestEntries : e.review_status = "included" /\ e.filter_stage = "rules"
  /\ \E e \in ManifestEntries :
       e.review_status = "excluded" /\ e.filter_stage = "llm" /\ e.needs_clarification = False

\* C18: the manifest has one entry per item of all_items, in the order of the
\* items, and entry i copies the fields of item i.
C18_OneEntryPerItem ==
  manifest # <<>> =>
    /\ Len(manifest.entries) = Len(all_items)
    /\ \A i \in 1..Len(all_items) :
         LET e == manifest.entries[i]
             it == all_items[i]
         IN  /\ e.sha = it.sha
             /\ e.subject = it.subject
             /\ e.author = it.author_name
             /\ e.url = it.url
             /\ e.review_status = it.review_status
             /\ e.category = Get(it, "category")
             /\ e.title = GetT(it, "title")
             /\ e.description = GetT(it, "description")
             /\ e.filter_stage = it.filter_stage
             /\ e.filter_reason = it.filter_reason
             /\ e.needs_clarification = (IF "needs_clarification" \in DOMAIN it
                                           THEN it.needs_clarification ELSE False)
             /\ e.clarification_question = GetT(it, "clarification_question")

C18_Witness ==
  /\ pc = "written"
  /\ Len(manifest.entries) = 2
  /\ manifest.entries[1].sha # manifest.entries[2].sha
  /\ manifest.entries[1].review_status = "excluded"
  /\ manifest.entries[2].review_status = "included"
  /\ manifest.entries[2].category = "bugfix"

\* C19: once harvested, the records of items keep exactly the fields and
\* values they were harvested with through every later stage.
C19_HarvestedNotMutated ==
  [][ /\ pc # "start" => items' = items
      /\ \A i \in 1..Len(items') : items'[i] \in Corpus
    ]_vars

C19_Witness ==
  /\ pc = "returned"
  /\ Len(items) = 2
  /\ \E i \in 1..Len(all_items) : all_items[i].filter_stage = "rules"
  /\ \E i \in 1..Len(all_items) : all_items[i].filter_stage = "llm"
  /\ \A i \in 1..Len(items) : "include" \notin DOMAIN items[i]

\* the derived records of a harvested record: those that carry its fields
DerivedOf(item) ==
  {d \in Derived \cup {ambiguous[i] : i \in 1..Len(ambiguous)} :
     \A f \in DOMAIN item : d[f] = item[f]}

\* what the rules decided about a derived record
Outcome(d) ==
  [include |-> d.include, reason |-> d.filter_reason, stage |-> d.filter_stage,
   confidence |-> Get(d, "filter_confidence"), category |-> Get(d, "category")]

\* the paths that match an internal path pattern (docs/, _test.go)
InternalPaths == {DocsPath, TestGoPath}

\* the fraction of files that are internal paths, 0 for no files
ExpectedScore(files) ==
  [num |-> Cardinality({i \in 1..Len(files) : files[i] \in InternalPaths}),
   den |-> IF Len(files) = 0 THEN 1 ELSE Len(files)]

\* no textual rule applies: no merge subject, no word of a subject pattern,
\* no body-pattern word, and no feat / fix type
NoTextualRule(item) ==
  /\ \E pre \in OtherTypePrefixes \cup NoPrefix, rest \in PlainRests :
       item.subject = pre \o rest
  /\ item.body \in PlainBodies

\* C14: two records that differ only in their files get the same outcome from
\* the rules (the same decision, or both none); a record no textual rule
\* applies to is left ambiguous; and an ambiguous record is annotated with the
\* fraction of its files that are internal paths.
C14_FilesNeverDecide ==
  (/\ pc = "filtered"
   /\ Len(items) = 2
   /\ items[1] = [items[2] EXCEPT !.files = items[1].files]) =>
    /\ \A d1 \in DerivedOf(items[1]), d2 \in DerivedOf(items[2]) : Outcome(d1) = Outcome(d2)
    /\ Len(decided) \in {0, 2}
    /\ Len(decided) + Len(ambiguous) = 2
    /\ NoTextualRule(items[1]) => Len(ambiguous) = 2
    /\ \A i \in 1..Len(ambiguous) :
         /\ ambiguous[i].include = None
         /\ "filter_confidence" \notin DOMAIN ambiguous[i]
         /\ ambiguous[i].filter_annotations.internal_files_score
              = ExpectedScore(ambiguous[i].files)

C14_Witness ==
  /\ pc = "filtered"
  /\ items[1].subject = C_DOCS.subject
  /\ items[1].files = <<DocsPath, TestGoPath>>
  /\ items[2].files = <<DocsPath>>
  /\ Len(ambiguous) = 2
  /\ ambiguous[1].filter_annotations.internal_files_score = [num |-> 2, den |-> 2]
  /\ ambiguous[2].filter_annotations.internal_files_score = [num |-> 1, den |-> 1]

\* C20: a record whose subject has the conventional type feat or fix, in any
\* case and with or without a scope, and no word of a subject pattern, is
\* decided by the rules, whatever its body: include is true, the stage is
\* rules, the confidence 0.9 and the category feature for feat, bugfix for fix.
C20_FeatFixIncluded ==
  pc = "filtered" =>
    \A k \in 1..Len(items) :
      \A pre \in FeatPrefixes \cup FixPrefixes, rest \in PlainRests :
        items[k].subject = pre \o rest =>
          /\ DerivedOf(items[k]) # {}
          /\ \A d \in DerivedOf(items[k]) :
               /\ d.include = True
               /\ d.filter_stage = "rules"
               /\ Get(d, "filter_confidence") = "0.9"
               /\ Get(d, "category") = (IF pre \in FeatPrefixes THEN "feature" ELSE "bugfix")

C20_Witness ==
  /\ pc = "filtered"
  /\ items[1].subject = C_FEAT.subject
  /\ items[1].body \in VersionBodies
  /\ Len(decided) = 2
  /\ decided[1].include = True
  /\ decided[1].category = "feature"
  /\ decided[1].filter_confidence = "0.9"

\* the elements of a list
ListRange(L) == {L[i] : i \in 1..Len(L)}

\* C21: the rules give a record the same decision and the same annotations
\* whenever they are asked: what a record gets inside a run, after the
\* records before it were classified, is what it gets when classified alone.
C21_Deterministic ==
  (pc = "filtered" /\ oracle_log = <<>>) =>
    \A k \in 1..Len(items) :
      LET alone == filter_candidates(<<items[k]>>)
      IN  DerivedOf(items[k]) = ListRange(alone.decided \o alone.ambiguous)

C21_Witness ==
  /\ pc = "filtered"
  /\ oracle_log = <<>>
  /\ items = <<C_FEAT, C_DOCS>>
  /\ Len(decided) = 1
  /\ decided[1].filter_annotations.suggested_category = "feature"
  /\ Len(ambiguous) = 1
  /\ DOMAIN ambiguous[1].filter_annotations = {"conventional_type", "internal_files_score"}

\* the subject is that of a merge commit
IsMergeSubject(item) ==
  \E pre \in MergePrefixes, rest \in SubjectRests : item.subject = pre \o rest

\* the subject is not that of a merge commit and has a word of a subject
\* pattern, whatever its conventional type
HasSubjectPatternWord(item) ==
  \E pre \in SubjectPrefixes \ MergePrefixes, rest \in SubjectRests :
    /\ item.subject = pre \o rest
    /\ pre \in MaintenancePrefixes \/ rest \in MaintenanceRests

\* C22: the rules apply in order and the first match wins: a merge subject is
\* excluded with confidence 0.95 also when it has a word of a subject pattern;
\* any other subject with such a word is excluded with confidence 0.9 also
\* when its type is feat or fix; in both cases whatever the body says, so the
\* body rule and the feat / fix rule come after them.
C22_Precedence ==
  /\ rule_based_filter(C_MERGE).decision = <<FilterDecision(False, <<"Excluded merge commit (not user-facing entry).">>, "rules", "0.95")>>
  /\ rule_based_filter(C_CHORE).decision = <<FilterDecision(False, <<"Excluded by subject pattern: ", "\\bbump\\b">>, "rules", "0.9")>>
  /\ pc = "filtered" =>
       \A k \in 1..Len(items) :
         /\ IsMergeSubject(items[k]) =>
              /\ DerivedOf(items[k]) # {}
              /\ \A d \in DerivedOf(items[k]) :
                   /\ d.include = False
                   /\ d.filter_stage = "rules"
                   /\ Get(d, "filter_confidence") = "0.95"
         /\ HasSubjectPatternWord(items[k]) =>
              /\ DerivedOf(items[k]) # {}
              /\ \A d \in DerivedOf(items[k]) :
                   /\ d.include = False
                   /\ d.filter_stage = "rules"
                   /\ Get(d, "filter_confidence") = "0.9"

C22_Witness ==
  /\ pc = "filtered"
  /\ IsMergeSubject(items[1])
  /\ \E pre \in MergePrefixes, rest \in MaintenanceRests : items[1].subject = pre \o rest
  /\ items[1].body \in VersionBodies
  /\ Len(decided) = 2
  /\ decided[1].include = False
  /\ decided[1].filter_confidence = "0.95"

\* C23: a record whose subject is no merge subject and has no word of a
\* subject pattern, whose type is none or a token other than feat and fix
\* (docs, hotfix, feature, prefix), and whose body has a word of a body
\* pattern, is excluded with confidence 0.85.
C23_BodyExclude ==
  pc = "filtered" =>
    \A k \in 1..Len(items) :
      (/\ \E pre \in OtherTypePrefixes \cup NoPrefix, rest \in PlainRests :
            items[k].subject = pre \o rest
       /\ items[k].body \in VersionBodies) =>
        /\ DerivedOf(items[k]) # {}
        /\ \A d \in DerivedOf(items[k]) :
             /\ d.include = False
             /\ Get(d, "filter_confidence") = "0.85"

\* C24: the manifest file is written once, before the pause; the renderer's
\* input is read once, from the file as it is after the pause, so what a
\* person edited in the file is what is rendered.
C24_TwoPhase ==
  [][ /\ writes' # writes => (pc = "returned" /\ writes = 0 /\ writes' = 1)
      /\ file' # file => (writes' # writes \/ (pc = "written" /\ pc' = "written"))
      /\ loaded' # loaded => (pc = "written" /\ pc' = "rendered" /\ loaded = <<>>)
      /\ pc' = "rendered" =>
           /\ writes' = 1
           /\ loaded' = file
           /\ md' = render_release_notes_markdown(file)
    ]_vars

C24_Witness ==
  /\ pc = "rendered"
  /\ writes = 1
  /\ file # manifest
  /\ loaded = file
  /\ Get(loaded.entries[1], "review_status") = "included"
  /\ Get(manifest.entries[1], "review_status") = "excluded"
  /\ md # render_release_notes_markdown(manifest)

\* number of items of a list with a sha
ShaCount(L, sha) == Cardinality({i \in 1..Len(L) : L[i].sha = sha})

\* C25: once the rules have run every harvested record is in exactly one of
\* decided and ambiguous, and after a successful run_pipeline all_items holds
\* exactly one item per harvested record, with its sha.
C25_NoRecordLostOrDuplicated ==
  /\ pc \notin {"start", "harvested"} =>
       /\ Len(decided) + Len(ambiguous) = Len(items)
       /\ \A k \in 1..Len(items) :
            ShaCount(decided, items[k].sha) + ShaCount(ambiguous, items[k].sha) = 1
  /\ ItemsBuilt =>
       /\ Len(all_items) = Len(items)
       /\ Len(all_items) = Len(decided) + Len(ambiguous)
       /\ \A k \in 1..Len(items) : ShaCount(all_items, items[k].sha) = 1

C25_Witness ==
  /\ pc = "returned"
  /\ Len(items) = 2
  /\ ShaCount(decided, items[1].sha) = 1
  /\ ShaCount(ambiguous, items[2].sha) = 1
  /\ Len(all_items) = 2

\* C26: an entry marked included is rendered exactly when its category is
\* feature or bugfix, in the section of that category; an included entry with
\* no category or another one appears in no section.
C26_IncludedNeedsCategory ==
  pc = "rendered" =>
    \A e \in LoadedEntries :
      Get(e, "review_status") = "included" =>
        /\ Get(e, "category") = "feature" => Occurs(FeaturesSection, fmt_entry(e))
        /\ Get(e, "category") = "bugfix" => Occurs(BugFixesSection, fmt_entry(e))
        /\ Get(e, "category") \notin Category =>
             /\ ~InPublic(e)
             /\ ~InInternal(e)
             /\ ~Occurs(md, e.url)

C26_Witness ==
  /\ pc = "rendered"
  /\ \E e \in LoadedEntries :
       Get(e, "review_status") = "included" /\ Get(e, "category") = "improvement"
  /\ \E e \in LoadedEntries :
       Get(e, "review_status") = "included" /\ Get(e, "category") = "feature" /\ InPublic(e)

====
